---- MODULE Spec2Model ----
(***************************************************************************)
(* A model of the solgo helpers: the IR root's contract types              *)
(* (ir/root.go), the bytecode verifier (validation), the ABI type-name     *)
(* helpers (abis/helpers.go) and the AST contract parser.                  *)
(*                                                                         *)
(* Go strings that the code inspects character by character are modelled   *)
(* as sequences of one-character strings (<<"u","i","n","t">>); strings    *)
(* that the code only compares or stores whole are TLA+ strings.           *)
(***************************************************************************)
EXTENDS Integers, Sequences, FiniteSets, TLC

VARIABLES
    ContractTypes,  \* RootSourceUnit.ContractTypes
    calls,          \* history: the standards passed to SetContractType so far
    vBytecode,      \* Verify's argument, a sequence of bytes
    vCompile,       \* what v.compiler.Compile() returns for this verifier
    vResult,        \* Verify's *VerifyResult: <<>> is nil, <<r>> is &r
    vErr,           \* Verify's error: NoErr is nil
    vpc,            \* "idle" | "call" | "done"
    typeName,       \* the type name handed to the normalizers
    nOut,           \* normalizeTypeName(typeName): <<>> before the call
    nAgain,         \* normalizeTypeName of nOut's value: <<>> before the call
    nStatus,        \* normalizeTypeNameWithStatus(typeName): <<>> before the call
    npc,            \* "idle" | "start" | "normalized" | "again" | "status"
    definedStructs, \* the keys of the definedStructs map
    sTypeName,      \* the type name handed to normalizeStructTypeName
    sOut,           \* what normalizeStructTypeName returned: <<>> before the call
    spc,            \* "idle" | "call" | "done"
    abi,            \* the text handed to parseMappingType
    mOut,           \* what parseMappingType returned: <<>> before the call
    mpc,            \* "idle" | "call" | "done"
    nextID,         \* ASTBuilder: the id GetNextID hands out next
    sourceUnits,    \* ASTBuilder: the source units parsed so far, in order
    unit,           \* the source unit Contract.Parse filled last: <<>> before any
    bodyCtx,        \* the nodes a definition or expression is parsed under
    bInput,         \* the parse tree handed to Parse: <<>> before the call
    built,          \* the nodes Parse created, in the order of their creation
    bpc             \* "idle" | "start" | "done"

irVars == <<ContractTypes, calls>>
verifyVars == <<vBytecode, vCompile, vResult, vErr, vpc>>
normVars == <<typeName, nOut, nAgain, nStatus, npc>>
structVars == <<definedStructs, sTypeName, sOut, spc>>
mapVars == <<abi, mOut, mpc>>
vars == <<ContractTypes, calls, vBytecode, vCompile, vResult, vErr, vpc,
          typeName, nOut, nAgain, nStatus, npc,
          definedStructs, sTypeName, sOut, spc, abi, mOut, mpc,
          nextID, sourceUnits, unit, bodyCtx, bInput, built, bpc>>
astVars == <<nextID, sourceUnits, unit>>
bodyVars == <<bodyCtx, bInput, built, bpc>>

(***************************************************************************)
(* Bounds of the model.                                                    *)
(***************************************************************************)
MaxCalls == 3
MaxBytes == 2
MaxParts == 3
MaxStructParts == 3
MaxDepth == 3
MaxMapParts == 4
MaxImports == 1
MaxBody == 2
MaxEnumValues == 2
MaxOperands == 2

(***************************************************************************)
(* Sequence helpers.                                                       *)
(***************************************************************************)
RECURSIVE SeqsUpTo(_, _)
SeqsUpTo(S, n) ==
    IF n = 0 THEN {<<>>}
    ELSE LET shorter == SeqsUpTo(S, n - 1)
         IN shorter \cup {Append(s, x) : s \in {t \in shorter : Len(t) = n - 1}, x \in S}

Range(s) == {s[i] : i \in 1..Len(s)}

(***************************************************************************)
(* ir/root.go: RootSourceUnit.ContractTypes                                *)
(***************************************************************************)
\* The eip.Standard values SetContractType switches on, and one it does not.
Standards == {"EIP20", "EIP721", "EIP1155", "EIP1967", "EIP1820", "EIP165"}

HasContractType(types, ctype) == \E i \in 1..Len(types) : types[i] = ctype

appendContractTypeNoCheck(types, contractType) == Append(types, contractType)

appendContractType(types, contractType) ==
    IF ~HasContractType(types, contractType)
    THEN Append(types, contractType)
    ELSE types

SetContractTypeSwapped(types, standard) ==
    CASE standard = "EIP20" -> appendContractType(types, "token")
      [] standard \in {"EIP721", "EIP1155"} -> appendContractType(types, "nft")
      [] standard \in {"EIP1967", "EIP1820"} ->
            appendContractType(appendContractType(types, "upgradeable"), "proxy")
      [] OTHER -> types

SetContractTypeOf(types, standard) ==
    CASE standard = "EIP20" -> appendContractType(types, "token")
      [] standard \in {"EIP721", "EIP1155"} -> appendContractType(types, "nft")
      [] standard \in {"EIP1967", "EIP1820"} ->
            appendContractType(appendContractType(types, "proxy"), "upgradeable")
      [] OTHER -> types

IRInit ==
    /\ ContractTypes = <<>>
    /\ calls = <<>>

SetContractType(standard) ==
    /\ Len(calls) < MaxCalls
    /\ ContractTypes' = SetContractTypeOf(ContractTypes, standard)
    /\ calls' = Append(calls, standard)
    /\ UNCHANGED <<verifyVars, normVars, structVars, mapVars, astVars, bodyVars>>

(***************************************************************************)
(* validation: Verifier.Verify                                             *)
(***************************************************************************)
NoErr == "nil"
ErrCompile == "compile error"
ErrMismatch == "bytecode missmatch, failed to verify"

\* encoding/hex: EncodeToString writes hextable[b >> 4], hextable[b & 0x0f].
hextable == <<"0", "1", "2", "3", "4", "5", "6", "7",
              "8", "9", "a", "b", "c", "d", "e", "f">>

RECURSIVE EncodeToString(_)
EncodeToString(bytes) ==
    IF bytes = <<>> THEN <<>>
    ELSE <<hextable[(Head(bytes) \div 16) + 1], hextable[(Head(bytes) % 16) + 1]>>
         \o EncodeToString(Tail(bytes))

ByteSamples == {0, 10, 171, 255}
Bytecodes == SeqsUpTo(ByteSamples, MaxBytes)

\* Compile() fails, or returns results whose Bytecode is a hex string: one of
\* the encodings the verifier can be handed, or a string no encoding equals
\* (upper-case digits, an odd length).
CompiledBytecodes ==
    {EncodeToString(b) : b \in Bytecodes} \cup {<<"A", "B">>, <<"0">>, <<"0", "a", "f">>}
CompileOutcomes ==
    {[failed |-> TRUE, Bytecode |-> <<>>]}
    \cup {[failed |-> FALSE, Bytecode |-> c] : c \in CompiledBytecodes}

RECURSIVE CommonPrefix(_, _)
CommonPrefix(a, b) ==
    IF a = <<>> \/ b = <<>> \/ Head(a) # Head(b) THEN 0
    ELSE 1 + CommonPrefix(Tail(a), Tail(b))

Reverse(s) == [i \in 1..Len(s) |-> s[Len(s) + 1 - i]]

\* diffmatchpatch.DiffMain(text1, text2, false), as far as its first stage:
\* equal texts give one equality (none when empty), otherwise the common
\* prefix and suffix are split off and the middles are a delete and an insert.
DiffMain(text1, text2) ==
    IF text1 = text2
    THEN IF text1 = <<>> THEN <<>> ELSE <<[Type |-> "Equal", Text |-> text1]>>
    ELSE LET p == CommonPrefix(text1, text2)
             r1 == SubSeq(text1, p + 1, Len(text1))
             r2 == SubSeq(text2, p + 1, Len(text2))
             s == CommonPrefix(Reverse(r1), Reverse(r2))
             m1 == SubSeq(r1, 1, Len(r1) - s)
             m2 == SubSeq(r2, 1, Len(r2) - s)
             piece(t, x) == IF x = <<>> THEN <<>> ELSE <<[Type |-> t, Text |-> x]>>
         IN piece("Equal", SubSeq(text1, 1, p))
            \o piece("Delete", m1) \o piece("Insert", m2)
            \o piece("Equal", SubSeq(r1, Len(r1) - s + 1, Len(r1)))

VerifyOutcomeNilOnMismatch(bytecode, results) ==
    IF results.failed
    THEN [result |-> <<>>, err |-> ErrCompile]
    ELSE LET encoded == EncodeToString(bytecode)
         IN IF encoded # results.Bytecode
            THEN [result |-> <<>>, err |-> ErrMismatch]
            ELSE [result |-> <<[Verified |-> TRUE,
                                ExpectedBytecode |-> encoded,
                                CompilerResults |-> results,
                                Diffs |-> <<>>]>>,
                  err |-> NoErr]

\* The pair Verify returns.
VerifyOutcome(bytecode, results) ==
    IF results.failed
    THEN [result |-> <<>>, err |-> ErrCompile]
    ELSE LET encoded == EncodeToString(bytecode)
         IN IF encoded # results.Bytecode
            THEN [result |-> <<[Verified |-> FALSE,
                                ExpectedBytecode |-> encoded,
                                CompilerResults |-> results,
                                Diffs |-> DiffMain(encoded, results.Bytecode)]>>,
                  err |-> ErrMismatch]
            ELSE [result |-> <<[Verified |-> TRUE,
                                ExpectedBytecode |-> encoded,
                                CompilerResults |-> results,
                                Diffs |-> <<>>]>>,
                  err |-> NoErr]

VerifyIdle ==
    /\ vBytecode = <<>>
    /\ vCompile = [failed |-> TRUE, Bytecode |-> <<>>]
    /\ vResult = <<>>
    /\ vErr = NoErr
    /\ vpc = "idle"

VerifyInit ==
    /\ vBytecode \in Bytecodes
    /\ vCompile \in CompileOutcomes
    /\ vResult = <<>>
    /\ vErr = NoErr
    /\ vpc = "call"

Verify ==
    /\ vpc = "call"
    /\ LET out == VerifyOutcome(vBytecode, vCompile)
       IN /\ vResult' = out.result
          /\ vErr' = out.err
    /\ vpc' = "done"
    /\ UNCHANGED <<vBytecode, vCompile>>
    /\ UNCHANGED <<irVars, normVars, structVars, mapVars, astVars, bodyVars>>

(***************************************************************************)
(* abis/helpers.go: normalizeTypeName, normalizeTypeNameWithStatus         *)
(***************************************************************************)
s_uint == <<"u", "i", "n", "t">>
s_int == <<"i", "n", "t">>
s_bool == <<"b", "o", "o", "l">>
s_bytes == <<"b", "y", "t", "e", "s">>
s_string == <<"s", "t", "r", "i", "n", "g">>
s_address == <<"a", "d", "d", "r", "e", "s", "s">>
s_addresspayable == s_address \o <<"p", "a", "y", "a", "b", "l", "e">>
s_tuple == <<"t", "u", "p", "l", "e">>
s_uint256 == s_uint \o <<"2", "5", "6">>
s_int256 == s_int \o <<"2", "5", "6">>

\* strings.HasPrefix
HasPrefix(s, prefix) ==
    Len(s) >= Len(prefix) /\ SubSeq(s, 1, Len(prefix)) = prefix

\* strings.Index for a one-character substring: the 0-based offset of its
\* first occurrence, -1 when there is none.
Index(s, c) ==
    IF \E i \in 1..Len(s) : s[i] = c
    THEN (CHOOSE i \in 1..Len(s) : s[i] = c /\ \A k \in 1..(i - 1) : s[k] # c) - 1
    ELSE -1

IsDigit(c) == c \in {"0", "1", "2", "3", "4", "5", "6", "7", "8", "9"}

\* regexp.MatchString(`\[\d+\]`, s): the pattern is not anchored, so a
\* bracketed run of digits anywhere in s matches.
MatchArray(s) ==
    \E i \in 1..Len(s) : \E j \in (i + 2)..Len(s) :
        /\ s[i] = "["
        /\ s[j] = "]"
        /\ \A k \in (i + 1)..(j - 1) : IsDigit(s[k])

\* A Go slice expression s[lo:hi] on a string panics unless 0 <= lo <= hi <= len(s).
SliceInRange(s, lo, hi) == 0 <= lo /\ lo <= hi /\ hi <= Len(s)
Slice(s, lo, hi) == SubSeq(s, lo + 1, hi)

\* What a call comes to: a returned value, or a run-time panic.
Returned(v) == [panic |-> FALSE, val |-> v]
Panicked == [panic |-> TRUE, val |-> <<>>]
ReturnedWith(v, flag) == [panic |-> FALSE, val |-> v, normalized |-> flag]
PanickedWith == [panic |-> TRUE, val |-> <<>>, normalized |-> FALSE]

sliceArmOffsetOne == 2 - 1

\* case isSlice: typePart := typeName[2:]
sliceArmOffset == 2

RECURSIVE normalizeTypeName(_)
normalizeTypeName(tn) ==
    LET isArray == MatchArray(tn)
        isSlice == HasPrefix(tn, <<"[", "]">>)
    IN IF isArray THEN
           LET lb == Index(tn, "[")
               rb == Index(tn, "]")
           IN IF ~SliceInRange(tn, lb + 1, rb) THEN Panicked
              ELSE LET numberPart == Slice(tn, lb + 1, rb)
                       typePart == Slice(tn, rb + 1, Len(tn))
                       inner == normalizeTypeName(typePart)
                   IN IF inner.panic THEN Panicked
                      ELSE Returned(<<"[">> \o numberPart \o <<"]">> \o inner.val)
       ELSE IF isSlice THEN
           LET typePart == Slice(tn, sliceArmOffset, Len(tn))
               inner == normalizeTypeName(typePart)
           IN IF inner.panic THEN Panicked
              ELSE Returned(<<"[", "]">> \o inner.val)
       ELSE IF HasPrefix(tn, s_uint) THEN
           IF tn = s_uint THEN Returned(s_uint256) ELSE Returned(tn)
       ELSE IF HasPrefix(tn, s_int) THEN
           IF tn = s_int THEN Returned(s_int256) ELSE Returned(tn)
       ELSE IF HasPrefix(tn, s_bool) THEN Returned(tn)
       ELSE IF HasPrefix(tn, s_bytes) THEN Returned(tn)
       ELSE IF tn = s_string THEN Returned(s_string)
       ELSE IF tn = s_address THEN Returned(s_address)
       ELSE IF tn = s_addresspayable THEN Returned(s_address)
       ELSE IF tn = s_tuple THEN Returned(s_tuple)
       ELSE Returned(tn)

statusSliceArmFlagFalse == FALSE

\* case isSlice: return "[]" + normalizeTypeName(typePart), true
statusSliceArmFlag == TRUE

normalizeTypeNameWithStatus(tn) ==
    LET isArray == MatchArray(tn)
        isSlice == HasPrefix(tn, <<"[", "]">>)
    IN IF isArray THEN
           LET lb == Index(tn, "[")
               rb == Index(tn, "]")
           IN IF ~SliceInRange(tn, lb + 1, rb) THEN PanickedWith
              ELSE LET numberPart == Slice(tn, lb + 1, rb)
                       typePart == Slice(tn, rb + 1, Len(tn))
                       inner == normalizeTypeName(typePart)
                   IN IF inner.panic THEN PanickedWith
                      ELSE ReturnedWith(<<"[">> \o numberPart \o <<"]">> \o inner.val, TRUE)
       ELSE IF isSlice THEN
           LET typePart == Slice(tn, sliceArmOffset, Len(tn))
               inner == normalizeTypeName(typePart)
           IN IF inner.panic THEN PanickedWith
              ELSE ReturnedWith(<<"[", "]">> \o inner.val, statusSliceArmFlag)
       ELSE IF HasPrefix(tn, s_uint) THEN
           IF tn = s_uint THEN ReturnedWith(s_uint256, TRUE) ELSE ReturnedWith(tn, TRUE)
       ELSE IF HasPrefix(tn, s_int) THEN
           IF tn = s_int THEN ReturnedWith(s_int256, TRUE) ELSE ReturnedWith(tn, TRUE)
       ELSE IF HasPrefix(tn, s_bool) THEN ReturnedWith(tn, TRUE)
       ELSE IF HasPrefix(tn, s_bytes) THEN ReturnedWith(tn, TRUE)
       ELSE IF tn = s_string THEN ReturnedWith(s_string, TRUE)
       ELSE IF tn = s_address THEN ReturnedWith(s_address, TRUE)
       ELSE IF tn = s_addresspayable THEN ReturnedWith(s_address, TRUE)
       ELSE IF tn = s_tuple THEN ReturnedWith(s_tuple, TRUE)
       ELSE ReturnedWith(tn, FALSE)

\* The type names the normalizers are handed: up to MaxParts pieces, each an
\* elementary name, a user-defined name, a width, or bracket text.
TypeNameParts ==
    {<<"[", "3", "]">>, <<"[", "]">>, <<"[">>, <<"]">>, <<"3">>, <<"S">>,
     s_uint, s_int, s_bool, s_bytes, s_string, s_address, s_addresspayable, s_tuple}

RECURSIVE Concat(_)
Concat(parts) == IF parts = <<>> THEN <<>> ELSE Head(parts) \o Concat(Tail(parts))

TypeNames == {Concat(parts) : parts \in SeqsUpTo(TypeNameParts, MaxParts)}

NormIdle ==
    /\ typeName = <<>>
    /\ nOut = <<>>
    /\ nAgain = <<>>
    /\ nStatus = <<>>
    /\ npc = "idle"

NormInit ==
    /\ typeName \in TypeNames
    /\ nOut = <<>>
    /\ nAgain = <<>>
    /\ nStatus = <<>>
    /\ npc = "start"

\* normalizeTypeName(typeName)
Normalize ==
    /\ npc = "start"
    /\ nOut' = <<normalizeTypeName(typeName)>>
    /\ npc' = "normalized"
    /\ UNCHANGED <<typeName, nAgain, nStatus>>
    /\ UNCHANGED <<irVars, verifyVars, structVars, mapVars, astVars, bodyVars>>

\* normalizeTypeName applied to what normalizeTypeName returned
NormalizeAgain ==
    /\ npc = "normalized"
    /\ ~nOut[1].panic
    /\ nAgain' = <<normalizeTypeName(nOut[1].val)>>
    /\ npc' = "again"
    /\ UNCHANGED <<typeName, nOut, nStatus>>
    /\ UNCHANGED <<irVars, verifyVars, structVars, mapVars, astVars, bodyVars>>

\* normalizeTypeNameWithStatus(typeName), after normalizeTypeName(typeName)
NormalizeWithStatus ==
    /\ npc = "normalized"
    /\ nStatus' = <<normalizeTypeNameWithStatus(typeName)>>
    /\ npc' = "status"
    /\ UNCHANGED <<typeName, nOut, nAgain>>
    /\ UNCHANGED <<irVars, verifyVars, structVars, mapVars, astVars, bodyVars>>

(***************************************************************************)
(* abis/helpers.go: normalizeStructTypeName, isStructType                  *)
(***************************************************************************)
s_brackets == <<"[", "]">>
s_tupleSlice == s_tuple \o s_brackets

\* strings.HasSuffix
HasSuffix(s, suffix) ==
    Len(s) >= Len(suffix) /\ SubSeq(s, Len(s) - Len(suffix) + 1, Len(s)) = suffix

\* strings.TrimSuffix: s without the suffix, once, when it ends with it.
TrimSuffix(s, suffix) ==
    IF HasSuffix(s, suffix) THEN SubSeq(s, 1, Len(s) - Len(suffix)) ELSE s

\* strings.TrimRight(s, cutset): s without every trailing character that is
\* in the cutset.
RECURSIVE TrimRight(_, _)
TrimRight(s, cutset) ==
    IF s # <<>> /\ s[Len(s)] \in Range(cutset)
    THEN TrimRight(SubSeq(s, 1, Len(s) - 1), cutset)
    ELSE s

isStructType(structs, tn) == TrimRight(tn, s_brackets) \in structs

normalizeStructTypeName(structs, tn) ==
    IF HasSuffix(tn, s_brackets) /\ isStructType(structs, TrimSuffix(tn, s_brackets))
    THEN s_tupleSlice
    ELSE s_tuple

StructNames == {<<"S">>, <<"T">>}
StructTypeNameParts == StructNames \cup {<<"[", "]">>, <<"[">>, <<"]">>}
StructTypeNames == {Concat(parts) : parts \in SeqsUpTo(StructTypeNameParts, MaxStructParts)}

StructIdle ==
    /\ definedStructs = {}
    /\ sTypeName = <<>>
    /\ sOut = <<>>
    /\ spc = "idle"

StructInit ==
    /\ definedStructs \in SUBSET StructNames
    /\ sTypeName \in StructTypeNames
    /\ sOut = <<>>
    /\ spc = "call"

NormalizeStruct ==
    /\ spc = "call"
    /\ sOut' = <<normalizeStructTypeName(definedStructs, sTypeName)>>
    /\ spc' = "done"
    /\ UNCHANGED <<definedStructs, sTypeName>>
    /\ UNCHANGED <<irVars, verifyVars, normVars, mapVars, astVars, bodyVars>>

(***************************************************************************)
(* abis/helpers.go: parseMappingType, isMappingType                        *)
(***************************************************************************)
s_mapping == <<"m", "a", "p", "p", "i", "n", "g">>
s_mappingOpen == s_mapping \o <<"(">>

\* \w of the regexp: [0-9A-Za-z_]
WordChars ==
    {"a", "b", "c", "d", "e", "f", "g", "h", "i", "j", "k", "l", "m",
     "n", "o", "p", "q", "r", "s", "t", "u", "v", "w", "x", "y", "z",
     "A", "B", "C", "D", "E", "F", "G", "H", "I", "J", "K", "L", "M",
     "N", "O", "P", "Q", "R", "S", "T", "U", "V", "W", "X", "Y", "Z",
     "0", "1", "2", "3", "4", "5", "6", "7", "8", "9", "_"}

\* \s of the regexp; the texts of the model hold no other white space.
SpaceChars == {" "}

\* strings.Contains
Contains(s, sub) ==
    \E i \in 1..(Len(s) - Len(sub) + 1) : SubSeq(s, i, i + Len(sub) - 1) = sub

isMappingType(name) == Contains(name, s_mapping)

\* The end of the longest run of characters of chars that starts at position
\* from (from - 1 when the run is empty).
RECURSIVE RunEnd(_, _, _)
RunEnd(s, from, chars) ==
    IF from <= Len(s) /\ s[from] \in chars THEN RunEnd(s, from + 1, chars) ELSE from - 1

LastIndexOfClose(s) ==
    IF \E i \in 1..Len(s) : s[i] = ")"
    THEN CHOOSE i \in 1..Len(s) : s[i] = ")" /\ \A k \in (i + 1)..Len(s) : s[k] # ")"
    ELSE 0

\* The match of `mapping\((\w+)\s*=>\s*(.+)\)` that starts at position i, as
\* <<whole, key, value>>, or <<>>. The quantifiers are greedy: the key is the
\* whole run of word characters, (.+) runs to the last ")" of the text, and
\* the \s* before it gives back white space only when (.+) would be empty.
MatchMappingAt(s, i) ==
    IF ~(i + 7 <= Len(s) /\ SubSeq(s, i, i + 7) = s_mappingOpen) THEN <<>>
    ELSE LET k == i + 8
             e == RunEnd(s, k, WordChars)
             a == RunEnd(s, e + 1, SpaceChars) + 1
         IN IF e < k \/ a + 1 > Len(s) \/ s[a] # "=" \/ s[a + 1] # ">" THEN <<>>
            ELSE LET q == a + 2
                     w == RunEnd(s, q, SpaceChars) + 1
                     last == LastIndexOfClose(s)
                     g == IF w <= last - 1 THEN w ELSE last - 1
                 IN IF last - 1 < q THEN <<>>
                    ELSE <<SubSeq(s, i, last), SubSeq(s, k, e), SubSeq(s, g, last - 1)>>

\* re.FindStringSubmatch: the leftmost match.
FindStringSubmatch(s) ==
    IF \E i \in 1..Len(s) : MatchMappingAt(s, i) # <<>>
    THEN MatchMappingAt(s, CHOOSE i \in 1..Len(s) :
            /\ MatchMappingAt(s, i) # <<>>
            /\ \A j \in 1..(i - 1) : MatchMappingAt(s, j) = <<>>)
    ELSE <<>>

\* if isMappingType(output[0])
nestedTest(value) == isMappingType(value)

RECURSIVE parseMappingType(_)
parseMappingType(text) ==
    LET matches == FindStringSubmatch(text)
    IN IF Len(matches) < 3
       THEN [ok |-> FALSE, input |-> <<>>, output |-> <<>>]
       ELSE IF nestedTest(matches[3])
            THEN LET nested == parseMappingType(matches[3])
                 IN [ok |-> TRUE,
                     input |-> <<matches[2]>> \o nested.input,
                     output |-> nested.output]
            ELSE [ok |-> TRUE, input |-> <<matches[2]>>, output |-> <<matches[3]>>]

\* The texts parseMappingType is handed: nested mappings of up to MaxDepth
\* keys around a value that is not a mapping, and free text of up to
\* MaxMapParts pieces.
MapKeys == {<<"a">>, <<"k", "_", "2">>}
MapValues == {<<"V">>, s_bytes \o <<"3", "2">>, s_mapping \o <<"X">>}
MapArrows == {<<"=", ">">>, <<" ", "=", ">", " ">>}
MapKeySeqs == SeqsUpTo(MapKeys, MaxDepth) \ {<<>>}

RECURSIVE Nest(_, _, _)
Nest(keys, value, arrow) ==
    IF keys = <<>> THEN value
    ELSE s_mappingOpen \o Head(keys) \o arrow \o Nest(Tail(keys), value, arrow) \o <<")">>

MapTextParts == {s_mappingOpen, s_mapping, <<"a">>, <<" ", "=", ">", " ">>, <<")">>, <<" ">>}
MapTexts ==
    {Nest(ks, v, ar) : ks \in MapKeySeqs, v \in MapValues, ar \in MapArrows}
    \cup {Concat(parts) : parts \in SeqsUpTo(MapTextParts, MaxMapParts)}

MapIdle ==
    /\ abi = <<>>
    /\ mOut = <<>>
    /\ mpc = "idle"

MapInit ==
    /\ abi \in MapTexts
    /\ mOut = <<>>
    /\ mpc = "call"

ParseMapping ==
    /\ mpc = "call"
    /\ mOut' = <<parseMappingType(abi)>>
    /\ mpc' = "done"
    /\ UNCHANGED abi
    /\ UNCHANGED <<irVars, verifyVars, normVars, structVars, astVars, bodyVars>>

(***************************************************************************)
(* ast: Contract.Parse                                                     *)
(***************************************************************************)
ContractNames == {"A", "B"}

\* What a contract body element parses to: nothing at all (an empty element),
\* a function with or without a body, another definition, or no node.
BodyElements == {"empty", "function", "unimplemented", "enum", "nil"}

\* ASTBuilder.GetNextID: ids are handed out in order, from 1; the n-th id
\* taken from a builder whose next id is next.
IdAfter(next, n) == next + n

\* parseImportPathsForSourceUnit: one import node per import, each with a
\* fresh id.
parseImportPaths(next, nImports) == [i \in 1..nImports |-> IdAfter(next, i - 1)]

\* parseInheritanceFromCtx: one BaseContract per inheritance specifier, with
\* a fresh id, the base's name and the id of the base's contract when that
\* contract was parsed before.
parseInheritance(next, units, bases) ==
    [i \in 1..Len(bases) |->
        [Id |-> IdAfter(next, i - 1),
         BaseName |-> bases[i],
         ReferencedDeclaration |->
            IF \E u \in Range(units) : u.Name = bases[i]
            THEN (CHOOSE u \in Range(units) : u.Name = bases[i]).ContractId
            ELSE 0]]

\* BodyNode.ParseDefinitions on the non-empty elements: a node with a fresh
\* id, or no node.
RECURSIVE parseBody(_, _)
parseBody(next, body) ==
    IF body = <<>> THEN <<>>
    ELSE IF Head(body) \in {"empty", "nil"} THEN parseBody(next, Tail(body))
    ELSE <<[Id |-> next,
            NodeType |-> IF Head(body) = "enum" THEN "ENUM_DEFINITION"
                         ELSE "FUNCTION_DEFINITION",
            Implemented |-> Head(body) # "unimplemented"]>>
         \o parseBody(next + 1, Tail(body))

linearizeSelfLast(contractId, importIds) == importIds \o <<contractId>>

\* LinearizedBaseContracts: the contract's own id, then each import's id.
linearize(contractId, importIds) == <<contractId>> \o importIds

\* FullyImplemented after the body loop: cleared by an empty element, by an
\* element that yields no node, and by a function that is not implemented.
fullyImplemented(body) ==
    \A i \in 1..Len(body) : body[i] \notin {"empty", "nil", "unimplemented"}

\* The source unit Contract.Parse leaves behind, for a unit created with the
\* builder's next id. Ids are taken in the order of the code: the unit's, its
\* src's, the imports', the contract's, the base contracts', the body nodes'.
\* The sources of the model hold no pragma. BodyElementCount is the length of
\* the parse tree's ctx.AllContractBodyElement(), kept beside the result.
ParsedUnit(next, units, name, nImports, bases, body) ==
    LET unitId == next
        srcId == IdAfter(next, 1)
        importIds == parseImportPaths(IdAfter(next, 2), nImports)
        contractId == IdAfter(next, 2 + nImports)
        baseContracts == parseInheritance(IdAfter(next, 3 + nImports), units, bases)
        nodes == parseBody(IdAfter(next, 3 + nImports + Len(bases)), body)
        contractNode ==
            [Id |-> contractId,
             Name |-> name,
             SrcParentIndex |-> unitId,
             NodeType |-> "CONTRACT_DEFINITION",
             Kind |-> "KIND_CONTRACT",
             Abstract |-> FALSE,
             BaseContracts |-> baseContracts,
             LinearizedBaseContracts |-> linearize(contractId, importIds),
             ContractDependencies |-> importIds,
             Nodes |-> nodes,
             FullyImplemented |-> fullyImplemented(body)]
    IN [Id |-> unitId,
        Name |-> name,
        SrcId |-> srcId,
        BodyElementCount |-> Len(body),
        ImportIds |-> importIds,
        BaseContracts |-> baseContracts,
        Contract |-> contractNode,
        NextID |-> IdAfter(next, 3 + nImports + Len(bases) + Len(nodes))]

\* The inheritance lists and bodies of the contracts of the model.
BaseLists == SeqsUpTo(ContractNames, 1)
Bodies == SeqsUpTo(BodyElements, MaxBody)

ASTIdle ==
    /\ nextID = 0
    /\ sourceUnits = <<>>
    /\ unit = <<>>

ASTInit ==
    /\ nextID = 1
    /\ sourceUnits = <<>>
    /\ unit = <<>>

\* One source unit: NewSourceUnit, then Contract.Parse on its contract.
ContractParse(name, nImports, bases, body) ==
    /\ nextID > 0
    /\ \A u \in Range(sourceUnits) : u.Name # name
    /\ \A i \in 1..Len(bases) : bases[i] # name
    /\ LET parsed == ParsedUnit(nextID, sourceUnits, name, nImports, bases, body)
       IN /\ unit' = <<parsed>>
          /\ nextID' = parsed.NextID
          /\ sourceUnits' = Append(sourceUnits,
                [Name |-> name, Id |-> parsed.Id,
                 ContractId |-> parsed.Contract.Id,
                 FullyImplemented |-> parsed.Contract.FullyImplemented])
    /\ UNCHANGED <<irVars, verifyVars, normVars, structVars, mapVars, bodyVars>>

(***************************************************************************)
(* ast: EnumDefinition.Parse and BitXorOperation.Parse                     *)
(***************************************************************************)
\* A nil node of the code; ids start at 1, so no node has this id.
Nil == 0

\* strconv of fmt's %d, for the ids of the model.
Digits == <<"0", "1", "2", "3", "4", "5", "6", "7", "8", "9">>

RECURSIVE Itoa(_)
Itoa(n) ==
    IF n < 10 THEN <<Digits[n + 1]>>
    ELSE Itoa(n \div 10) \o <<Digits[(n % 10) + 1]>>

s_t_enum == <<"t", "_", "e", "n", "u", "m", "_", "$", "_">>

\* fmt.Sprintf("%s.%s", unit.GetName(), e.Name)
canonicalName(unitName, name) == unitName \o <<".">> \o name

\* fmt.Sprintf("t_enum_$_%s_$%d", e.Name, e.Id)
enumTypeIdentifier(name, id) == s_t_enum \o name \o <<"_", "$">> \o Itoa(id)

enumMemberTypeIdentifierNoDollar(name, member, id) ==
    s_t_enum \o name \o <<"_">> \o member \o <<"_", "$">> \o Itoa(id)

\* fmt.Sprintf("t_enum_$_%s$_%s_$%d", e.Name, enumCtx.GetText(), id)
enumMemberTypeIdentifier(name, member, id) ==
    s_t_enum \o name \o <<"$", "_">> \o member \o <<"_", "$">> \o Itoa(id)

\* The fields of a node that the model follows, at Go's zero values. ExpNode
\* is not a field of the code: it keeps the expNode argument of the Parse
\* call that made the node.
ZeroNode ==
    [Id |-> 0, SrcId |-> 0, ParentIndex |-> 0, ExpNode |-> Nil,
     NodeType |-> "", Name |-> <<>>, CanonicalName |-> <<>>,
     TypeIdentifier |-> <<>>, Children |-> <<>>,
     TypeDescriptions |-> <<>>, TypeDescription |-> ""]

\* NewEnumDefinition, then EnumDefinition.Parse: the enum takes an id in the
\* constructor and its src's id in Parse; each member takes one id, and its
\* src is given no id. Children holds the ids of Members.
ParsedEnum(next, ctx, name, values) ==
    LET id == next
        srcId == IdAfter(next, 1)
        members ==
            [i \in 1..Len(values) |->
                [Id |-> IdAfter(next, 1 + i),
                 ParentIndex |-> id,
                 Name |-> values[i],
                 NodeType |-> "ENUM_VALUE",
                 TypeIdentifier |->
                    enumMemberTypeIdentifier(name, values[i], IdAfter(next, 1 + i))]
                @@ ZeroNode]
        enum ==
            [Id |-> id,
             SrcId |-> srcId,
             ParentIndex |-> ctx.contractNode,
             NodeType |-> "ENUM_DEFINITION",
             Name |-> name,
             CanonicalName |-> canonicalName(ctx.unitName, name),
             TypeIdentifier |-> enumTypeIdentifier(name, id),
             Children |-> [i \in 1..Len(values) |-> members[i].Id]]
            @@ ZeroNode
    IN [root |-> enum,
        nodes |-> <<enum>> \o members,
        next |-> IdAfter(next, 2 + Len(values))]

\* Src.ParentIndex of an expression node: the first of the variable
\* declaration, the enclosing expression, the body, the function and the
\* contract that is not nil.
ParentIndexOf(ctx, expNode) ==
    IF ctx.vDeclar # Nil THEN ctx.vDeclar
    ELSE IF expNode # Nil THEN expNode
    ELSE IF ctx.bodyNode # Nil THEN ctx.bodyNode
    ELSE IF ctx.fnNode # Nil THEN ctx.fnNode
    ELSE ctx.contractNode

\* BitXorOperation.GetTypeDescription returns f.TypeDescriptions[0]; any
\* other expression node of the model returns its own TypeDescription.
GetTypeDescription(node) ==
    IF node.NodeType = "BIT_XOR_OPERATION" THEN node.TypeDescriptions[1]
    ELSE node.TypeDescription

\* A primary expression (an identifier or a literal) of an elementary type: a
\* node with a fresh id, a src with a fresh id, and the parent every
\* expression node takes.
ParsedPrimary(next, ctx, expNode, type) ==
    LET node ==
            [Id |-> next,
             SrcId |-> IdAfter(next, 1),
             ParentIndex |-> ParentIndexOf(ctx, expNode),
             ExpNode |-> expNode,
             NodeType |-> "PRIMARY_EXPRESSION",
             TypeDescription |-> type]
            @@ ZeroNode
    IN [root |-> node, nodes |-> <<node>>, next |-> IdAfter(next, 2)]

RECURSIVE ParseExpression(_, _, _, _)
RECURSIVE ParseOperands(_, _, _, _)
RECURSIVE ParsedBitXor(_, _, _, _)

\* Expression.Parse: the node of the expression's kind, made by that kind's
\* constructor and Parse.
ParseExpression(next, ctx, expNode, e) ==
    IF e.kind = "xor" THEN ParsedBitXor(next, ctx, expNode, e.operands)
    ELSE ParsedPrimary(next, ctx, expNode, e.type)

\* The loop over ctx.AllExpression(): each operand is parsed, in order, with
\* the bit-xor node f as its enclosing expression.
ParseOperands(next, ctx, f, exprs) ==
    IF exprs = <<>> THEN [roots |-> <<>>, nodes |-> <<>>, next |-> next]
    ELSE LET first == ParseExpression(next, ctx, f, Head(exprs))
             rest == ParseOperands(first.next, ctx, f, Tail(exprs))
         IN [roots |-> <<first.root>> \o rest.roots,
             nodes |-> first.nodes \o rest.nodes,
             next |-> rest.next]

\* NewBitXorOperationExpression, then BitXorOperation.Parse: the constructor
\* takes the id next, Parse takes the id after it for f.Id and the one after
\* that for f.Src.Id, and then parses the operands. Children holds the ids
\* of Expressions.
ParsedBitXor(next, ctx, expNode, exprs) ==
    LET constructorId == next
        id == IdAfter(constructorId, 1)
        srcId == IdAfter(constructorId, 2)
        operands == ParseOperands(IdAfter(constructorId, 3), ctx, id, exprs)
        f == [Id |-> id,
              SrcId |-> srcId,
              ParentIndex |-> ParentIndexOf(ctx, expNode),
              ExpNode |-> expNode,
              NodeType |-> "BIT_XOR_OPERATION",
              Children |-> [i \in 1..Len(exprs) |-> operands.roots[i].Id],
              TypeDescriptions |->
                [i \in 1..Len(exprs) |-> GetTypeDescription(operands.roots[i])]]
             @@ ZeroNode
    IN [root |-> f, nodes |-> <<f>> \o operands.nodes, next |-> operands.next]

\* The expressions of the model: primaries of two integer types, and bit-xor
\* operations of two to MaxOperands operands, each a primary or a bit-xor of
\* two primaries.
ElementaryTypes == {"uint8", "uint256"}
PrimaryExprs == {[kind |-> "primary", type |-> t, operands |-> <<>>] : t \in ElementaryTypes}
XorOf(operands) == [kind |-> "xor", type |-> "", operands |-> operands]
InnerXors == {XorOf(<<a, b>>) : a \in PrimaryExprs, b \in PrimaryExprs}
XorExprs ==
    {XorOf(ops) : ops \in {o \in SeqsUpTo(PrimaryExprs \cup InnerXors, MaxOperands) :
                              Len(o) >= 2}}

\* The enums of the model.
EnumNames == {<<"E">>}
EnumValueNames == {<<"X">>, <<"Y", "1">>}
EnumValueLists == SeqsUpTo(EnumValueNames, MaxEnumValues)

\* What a definition or an expression is parsed under: the source unit "U"
\* and its contract as Contract.Parse leaves them, and, where present, a
\* function, its body, a variable declaration and an enclosing expression,
\* each a node with an id and a src id of its own.
BodyContext(hasFn, hasBody, hasVDeclar, hasExp) ==
    LET u == ParsedUnit(1, <<>>, "U", 0, <<>>, <<>>)
        n1 == u.NextID
        n2 == IF hasFn THEN IdAfter(n1, 2) ELSE n1
        n3 == IF hasBody THEN IdAfter(n2, 2) ELSE n2
        n4 == IF hasVDeclar THEN IdAfter(n3, 2) ELSE n3
        n5 == IF hasExp THEN IdAfter(n4, 2) ELSE n4
    IN [unitName |-> <<"U">>,
        unit |-> u.Id,
        contractNode |-> u.Contract.Id,
        fnNode |-> IF hasFn THEN n1 ELSE Nil,
        bodyNode |-> IF hasBody THEN n2 ELSE Nil,
        vDeclar |-> IF hasVDeclar THEN n3 ELSE Nil,
        expNode |-> IF hasExp THEN n4 ELSE Nil,
        next |-> n5]

BodyContexts ==
    {BodyContext(hasFn, hasBody, hasVDeclar, hasExp) :
        hasFn \in BOOLEAN, hasBody \in BOOLEAN,
        hasVDeclar \in BOOLEAN, hasExp \in BOOLEAN}

BodyIdle ==
    /\ bodyCtx = <<>>
    /\ bInput = <<>>
    /\ built = <<>>
    /\ bpc = "idle"

BodyInit ==
    /\ bodyCtx \in BodyContexts
    /\ nextID = bodyCtx.next
    /\ sourceUnits = <<>>
    /\ unit = <<>>
    /\ bInput = <<>>
    /\ built = <<>>
    /\ bpc = "start"

\* An enum definition of the contract's body: NewEnumDefinition(b).Parse.
EnumParse(name, values) ==
    /\ bpc = "start"
    /\ LET parsed == ParsedEnum(nextID, bodyCtx, name, values)
       IN /\ built' = parsed.nodes
          /\ nextID' = parsed.next
    /\ bInput' = [kind |-> "enum", name |-> name, values |-> values]
    /\ bpc' = "done"
    /\ UNCHANGED <<bodyCtx, sourceUnits, unit>>
    /\ UNCHANGED <<irVars, verifyVars, normVars, structVars, mapVars>>

\* A bit-xor expression under the context's nodes:
\* NewBitXorOperationExpression(b).Parse.
BitXorParse(e) ==
    /\ bpc = "start"
    /\ LET parsed == ParsedBitXor(nextID, bodyCtx, bodyCtx.expNode, e.operands)
       IN /\ built' = parsed.nodes
          /\ nextID' = parsed.next
    /\ bInput' = e
    /\ bpc' = "done"
    /\ UNCHANGED <<bodyCtx, sourceUnits, unit>>
    /\ UNCHANGED <<irVars, verifyVars, normVars, structVars, mapVars>>

(***************************************************************************)
(* Specifications: one per component, the others at rest.                  *)
(***************************************************************************)
InitIR == IRInit /\ VerifyIdle /\ NormIdle /\ StructIdle /\ MapIdle /\ ASTIdle /\ BodyIdle
NextIR == \E standard \in Standards : SetContractType(standard)
SpecIR == InitIR /\ [][NextIR]_vars

InitVerify == IRInit /\ VerifyInit /\ NormIdle /\ StructIdle /\ MapIdle /\ ASTIdle /\ BodyIdle
NextVerify == Verify
SpecVerify == InitVerify /\ [][NextVerify]_vars

InitNormalize == IRInit /\ VerifyIdle /\ NormInit /\ StructIdle /\ MapIdle /\ ASTIdle /\ BodyIdle
NextNormalize == Normalize \/ NormalizeAgain \/ NormalizeWithStatus
SpecNormalize == InitNormalize /\ [][NextNormalize]_vars

InitStruct == IRInit /\ VerifyIdle /\ NormIdle /\ StructInit /\ MapIdle /\ ASTIdle /\ BodyIdle
NextStruct == NormalizeStruct
SpecStruct == InitStruct /\ [][NextStruct]_vars

InitMapping == IRInit /\ VerifyIdle /\ NormIdle /\ StructIdle /\ MapInit /\ ASTIdle /\ BodyIdle
NextMapping == ParseMapping
SpecMapping == InitMapping /\ [][NextMapping]_vars

InitAST == IRInit /\ VerifyIdle /\ NormIdle /\ StructIdle /\ MapIdle /\ ASTInit /\ BodyIdle
NextAST ==
    \E name \in ContractNames, nImports \in 0..MaxImports,
       bases \in BaseLists, body \in Bodies :
        ContractParse(name, nImports, bases, body)
SpecAST == InitAST /\ [][NextAST]_vars

InitBody == IRInit /\ VerifyIdle /\ NormIdle /\ StructIdle /\ MapIdle /\ BodyInit
NextBody ==
    \/ \E name \in EnumNames, values \in EnumValueLists : EnumParse(name, values)
    \/ \E e \in XorExprs : BitXorParse(e)
SpecBody == InitBody /\ [][NextBody]_vars

(***************************************************************************)
(* Claims about ContractTypes.                                             *)
(***************************************************************************)
\* The contract types each standard stands for, as the specification's table
\* gives them.
TypesOfStandard(standard) ==
    CASE standard = "EIP20" -> <<"token">>
      [] standard = "EIP721" -> <<"nft">>
      [] standard = "EIP1155" -> <<"nft">>
      [] standard = "EIP1967" -> <<"proxy", "upgradeable">>
      [] standard = "EIP1820" -> <<"proxy", "upgradeable">>
      [] OTHER -> <<>>

RECURSIVE Requested(_)
Requested(cs) ==
    IF cs = <<>> THEN <<>> ELSE TypesOfStandard(Head(cs)) \o Requested(Tail(cs))

\* The first occurrences of s, in order.
RECURSIVE FirstOccurrences(_)
FirstOccurrences(s) ==
    IF s = <<>> THEN <<>>
    ELSE LET init == SubSeq(s, 1, Len(s) - 1)
             rest == FirstOccurrences(init)
         IN IF s[Len(s)] \in Range(init) THEN rest ELSE Append(rest, s[Len(s)])

\* C1: after any sequence of SetContractType calls from an empty list,
\* ContractTypes holds no string twice and lists the types in the order in
\* which each was first added.
C1_NoDuplicatesInsertionOrder ==
    /\ \A i, j \in 1..Len(ContractTypes) :
          ContractTypes[i] = ContractTypes[j] => i = j
    /\ ContractTypes = FirstOccurrences(Requested(calls))

\* C1's case: a repeated type was requested and two distinct types are listed.
C1_Witness ==
    /\ Len(calls) = 3
    /\ calls[1] = "EIP1967" /\ calls[2] = "EIP20" /\ calls[3] = "EIP1820"
    /\ ContractTypes = <<"proxy", "upgradeable", "token">>

\* C2: one SetContractType call on the empty list adds exactly "token" for
\* ERC-20, "nft" for ERC-721 and ERC-1155, and "proxy" then "upgradeable" for
\* ERC-1967 and ERC-1820.
C2_TypesPerStandard ==
    Len(calls) = 1 =>
        /\ calls[1] = "EIP20" => ContractTypes = <<"token">>
        /\ calls[1] = "EIP721" => ContractTypes = <<"nft">>
        /\ calls[1] = "EIP1155" => ContractTypes = <<"nft">>
        /\ calls[1] = "EIP1967" => ContractTypes = <<"proxy", "upgradeable">>
        /\ calls[1] = "EIP1820" => ContractTypes = <<"proxy", "upgradeable">>

C2_Witness ==
    /\ calls = <<"EIP1820">>
    /\ ContractTypes = <<"proxy", "upgradeable">>

(***************************************************************************)
(* Claims about Verify.                                                    *)
(***************************************************************************)
Mismatch ==
    /\ vpc = "done"
    /\ ~vCompile.failed
    /\ EncodeToString(vBytecode) # vCompile.Bytecode

\* C3 as stated: on a mismatch after a successful compilation Verify returns
\* the result (verified = false, with the diffs) and no error.
C3_MismatchIsDataNotError ==
    Mismatch =>
        /\ vResult # <<>>
        /\ vResult[1].Verified = FALSE
        /\ vResult[1].Diffs # <<>>
        /\ vErr = NoErr

\* C3 as amended: on a mismatch after a successful compilation Verify returns
\* the result (verified = false, with the diffs) together with the error
\* "bytecode missmatch, failed to verify".
C3_MismatchIsDataAndError ==
    Mismatch =>
        /\ vResult # <<>>
        /\ vResult[1].Verified = FALSE
        /\ vResult[1].Diffs # <<>>
        /\ vResult[1].ExpectedBytecode = EncodeToString(vBytecode)
        /\ vErr = ErrMismatch

C3_Witness ==
    /\ Mismatch
    /\ vBytecode = <<171>>
    /\ vCompile.Bytecode = <<"A", "B">>
    /\ vResult # <<>>
    /\ vErr = ErrMismatch

(***************************************************************************)
(* Claims about the type-name normalizers.                                 *)
(***************************************************************************)
s_fixed3 == <<"[", "3", "]">>
s_slice == <<"[", "]">>

\* C4: normalize is idempotent: wherever normalize(t) returns,
\* normalize(normalize(t)) returns the same name.
C4_NormalizeIdempotent ==
    npc = "again" => nAgain[1] = nOut[1]

\* C4's case: "[3][]addresspayable" normalizes to "[3][]address", and so does that.
C4_Witness ==
    /\ npc = "again"
    /\ typeName = s_fixed3 \o s_slice \o s_addresspayable
    /\ nOut[1].val = s_fixed3 \o s_slice \o s_address
    /\ nAgain[1].val = s_fixed3 \o s_slice \o s_address

\* C5: normalize is total: on every input it returns a name and never panics.
C5_NormalizeTotal ==
    nOut # <<>> => ~nOut[1].panic

PreservedPrefix(t) ==
    /\ HasPrefix(t, s_uint) \/ HasPrefix(t, s_int)
       \/ HasPrefix(t, s_bool) \/ HasPrefix(t, s_bytes)
    /\ t # s_uint
    /\ t # s_int

\* C6: a type name that begins with uint, int, bool or bytes and is not
\* exactly "uint" or "int" is returned unchanged, a trailing "[N]" included.
C6_PrefixedNamesUnchanged ==
    (nOut # <<>> /\ PreservedPrefix(typeName)) => nOut[1] = Returned(typeName)

\* The default arm: an unknown user-defined type.
IsUnknownUserType(t) ==
    /\ ~MatchArray(t)
    /\ ~HasPrefix(t, s_slice)
    /\ ~HasPrefix(t, s_uint) /\ ~HasPrefix(t, s_int)
    /\ ~HasPrefix(t, s_bool) /\ ~HasPrefix(t, s_bytes)
    /\ t \notin {s_string, s_address, s_addresspayable, s_tuple}

C8_NestedMappingFlattened ==
    mpc = "done" =>
        \A ks \in MapKeySeqs, v \in MapValues, ar \in MapArrows :
            abi = Nest(ks, v, ar) =>
                mOut[1] = [ok |-> TRUE, input |-> ks, output |-> <<v>>]

\* C9: normalize_struct yields "tuple[]" when the name ends with "[]" and the
\* name without that one "[]" is a defined struct, "tuple" when the name itself
\* is a defined struct, and the lookup strips no more than that one "[]".
C9_StructLookupStripsOneSuffix ==
    spc = "done" =>
        LET arrayOfStruct ==
                /\ HasSuffix(sTypeName, s_brackets)
                /\ TrimSuffix(sTypeName, s_brackets) \in definedStructs
        IN /\ arrayOfStruct => sOut[1] = s_tupleSlice
           /\ sTypeName \in definedStructs => sOut[1] = s_tuple
           /\ sOut[1] = s_tupleSlice => arrayOfStruct

(***************************************************************************)
(* Claims about Contract.Parse.                                            *)
(***************************************************************************)
\* C10: every contract Contract.Parse produces, whatever its imports, bases
\* and body, has a non-empty linearized_base_contracts whose first element is
\* the contract's own id.
C10_LinearizedStartsWithOwnId ==
    unit # <<>> =>
        /\ Len(unit[1].Contract.LinearizedBaseContracts) >= 1
        /\ unit[1].Contract.LinearizedBaseContracts[1] = unit[1].Contract.Id

\* C10's case: a second contract with an import, a base and a body.
C10_Witness ==
    /\ Len(sourceUnits) = 2
    /\ Len(unit[1].ImportIds) = 1
    /\ Len(unit[1].Contract.BaseContracts) = 1
    /\ Len(unit[1].Contract.Nodes) = 2
    /\ Len(unit[1].Contract.LinearizedBaseContracts) = 2
    /\ unit[1].Contract.LinearizedBaseContracts[1] = unit[1].Contract.Id

\* C11: when contract B inherits from a contract A that was declared before
\* it, and B's source unit has no imports, B's linearized_base_contracts is
\* B's id followed by A's id.
C11_LinearizedListsTheBase ==
    unit # <<>> =>
        LET contract == unit[1].Contract
        IN (/\ unit[1].ImportIds = <<>>
            /\ Len(contract.BaseContracts) = 1
            /\ contract.BaseContracts[1].ReferencedDeclaration # 0)
           => contract.LinearizedBaseContracts =
                <<contract.Id, contract.BaseContracts[1].ReferencedDeclaration>>

\* The base contracts of a contract that were parsed before it and are not
\* fully implemented.
UnimplementedBases(contract) ==
    {i \in 1..Len(contract.BaseContracts) :
        \E u \in Range(sourceUnits) :
            /\ u.ContractId = contract.BaseContracts[i].ReferencedDeclaration
            /\ ~u.FullyImplemented}

\* C12: at the end of Contract.Parse fully_implemented is true exactly when
\* every body element has yielded a node (none was empty, none yielded no
\* node), every function among the nodes is implemented, and the contract
\* inherits from no contract that is not fully implemented.
C12_FullyImplementedAndInherited ==
    unit # <<>> =>
        LET contract == unit[1].Contract
        IN contract.FullyImplemented <=>
            /\ Len(contract.Nodes) = unit[1].BodyElementCount
            /\ \A i \in 1..Len(contract.Nodes) : contract.Nodes[i].Implemented
            /\ UnimplementedBases(contract) = {}

(***************************************************************************)
(* Claims about EnumDefinition.Parse and BitXorOperation.Parse.            *)
(***************************************************************************)
\* The ids the nodes of built and their srcs carry, nodes first.
BuiltIds ==
    [i \in 1..(2 * Len(built)) |->
        IF i <= Len(built) THEN built[i].Id ELSE built[i - Len(built)].SrcId]

\* C13: after a parse the ids of the nodes and of their src descriptors are
\* pairwise distinct, none is 0, and together with the ids handed out before
\* the parse they are all the ids from 1 to the last one allocated.
C13_IdsFreshAndContiguous ==
    bpc = "done" =>
        /\ \A i, j \in 1..Len(BuiltIds) : i # j => BuiltIds[i] # BuiltIds[j]
        /\ \A i \in 1..Len(BuiltIds) : BuiltIds[i] # 0
        /\ (1..(bodyCtx.next - 1)) \cup Range(BuiltIds) = 1..(nextID - 1)

\* The node that directly contains node: the node of built that holds it as
\* a child; for the node Parse was called for, the contract for an enum and,
\* for an expression, the tightest of the enclosing expression, the variable
\* declaration, the body, the function and the contract.
Container(node) ==
    IF \E m \in Range(built) : node.Id \in Range(m.Children)
    THEN (CHOOSE m \in Range(built) : node.Id \in Range(m.Children)).Id
    ELSE IF node.NodeType = "ENUM_DEFINITION" THEN bodyCtx.contractNode
    ELSE IF bodyCtx.expNode # Nil THEN bodyCtx.expNode
    ELSE IF bodyCtx.vDeclar # Nil THEN bodyCtx.vDeclar
    ELSE IF bodyCtx.bodyNode # Nil THEN bodyCtx.bodyNode
    ELSE IF bodyCtx.fnNode # Nil THEN bodyCtx.fnNode
    ELSE bodyCtx.contractNode

\* C14: every node's parent_id is the id of the node that directly contains
\* it, a bit-xor nested in an expression inside a variable declaration
\* included, and each operand of a bit-xor node is parsed with that node as
\* its enclosing expression.
C14_ParentIsDirectContainer ==
    bpc = "done" =>
        \A n \in Range(built) :
            /\ n.ParentIndex = Container(n)
            /\ n.NodeType = "BIT_XOR_OPERATION" =>
                \A c \in Range(built) :
                    c.Id \in Range(n.Children) => c.ExpNode = n.Id

\* C15: for an enum E of source unit U, Parse sets canonical_name to "U.E"
\* and type_identifier to t_enum_$_E_$<enum id>, and makes one ENUM_VALUE
\* member per declared value, in declaration order, with ids distinct from
\* each other and from the enum's, parent_id the enum's id, and
\* type_identifier t_enum_$_E$_<Member>_$<member id>.
C15_EnumAndMembers ==
    (bpc = "done" /\ bInput.kind = "enum") =>
        LET e == built[1]
            members == Tail(built)
            t_enum == <<"t", "_", "e", "n", "u", "m", "_", "$", "_">>
        IN /\ e.NodeType = "ENUM_DEFINITION"
           /\ e.CanonicalName = bodyCtx.unitName \o <<".">> \o bInput.name
           /\ e.TypeIdentifier = t_enum \o bInput.name \o <<"_", "$">> \o Itoa(e.Id)
           /\ Len(members) = Len(bInput.values)
           /\ e.Children = [i \in 1..Len(members) |-> members[i].Id]
           /\ \A i \in 1..Len(members) :
                /\ members[i].NodeType = "ENUM_VALUE"
                /\ members[i].Name = bInput.values[i]
                /\ members[i].ParentIndex = e.Id
                /\ members[i].Id # e.Id
                /\ \A j \in 1..Len(members) : i # j => members[i].Id # members[j].Id
                /\ members[i].TypeIdentifier =
                     t_enum \o bInput.name \o <<"$", "_">> \o bInput.values[i]
                            \o <<"_", "$">> \o Itoa(members[i].Id)

\* C15's case: enum E { X, Y1 } parsed first in the contract of unit U, and
\* the same enum parsed under a context whose ids reach two digits.
C15_Witness ==
    /\ bpc = "done"
    /\ bInput = [kind |-> "enum", name |-> <<"E">>, values |-> <<<<"X">>, <<"Y", "1">>>>]
    /\ Len(built) = 3
    /\ \/ /\ built[1].CanonicalName = <<"U", ".", "E">>
          /\ built[1].TypeIdentifier =
                <<"t", "_", "e", "n", "u", "m", "_", "$", "_", "E", "_", "$", "4">>
          /\ built[3].TypeIdentifier =
                <<"t", "_", "e", "n", "u", "m", "_", "$", "_", "E", "$", "_",
                  "Y", "1", "_", "$", "7">>
       \/ /\ built[1].Id = 12
          /\ built[3].TypeIdentifier =
                <<"t", "_", "e", "n", "u", "m", "_", "$", "_", "E", "$", "_",
                  "Y", "1", "_", "$", "1", "5">>

\* The bit-width of an integer type of the model.
Bits(type) == IF type = "uint8" THEN 8 ELSE 256

\* C16: a bit-xor node holds one type description per operand, in operand
\* order, and its own type description is the widest of its operands' types.
C16_TypeIsWidestOperand ==
    bpc = "done" =>
        \A n \in Range(built) :
            n.NodeType = "BIT_XOR_OPERATION" =>
                /\ Len(n.TypeDescriptions) = Len(n.Children)
                /\ \A i \in 1..Len(n.Children) :
                     \A c \in Range(built) :
                        c.Id = n.Children[i] =>
                            n.TypeDescriptions[i] = GetTypeDescription(c)
                /\ \A i \in 1..Len(n.TypeDescriptions) :
                     Bits(GetTypeDescription(n)) >= Bits(n.TypeDescriptions[i])

\* C17: whenever parse_mapping returns ok it returns at least one key type
\* and exactly one value type, and whenever it does not both lists are empty.
C17_OkHasKeysAndOneValue ==
    mpc = "done" =>
        /\ mOut[1].ok => (Len(mOut[1].input) >= 1 /\ Len(mOut[1].output) = 1)
        /\ ~mOut[1].ok => (mOut[1].input = <<>> /\ mOut[1].output = <<>>)

====
